---- MODULE Spec2Model ----
(***************************************************************************)
(* Model of utils/core/client.py: the Client of an EVM network.            *)
(* One caller drives the Client through prepare_transaction and            *)
(* send_transaction, one call at a time, and each call is followed through *)
(* its await points: the three lookups of prepare_transaction; gas         *)
(* estimation, sign + broadcast and the receipt polling loop (query,       *)
(* handling of the response, sleep) of send_transaction.  While the call   *)
(* is suspended in an await the event loop runs other coroutines: a        *)
(* change_rpc on the same Client can swap the connection, and the chain    *)
(* can include a transaction of the account.  The log entries of           *)
(* change_rpc are part of the state; the entries the other methods write   *)
(* have no effect on what they do and are left out.  The chain appears as  *)
(* the account's transaction count and as the answers it gives to the      *)
(* requests; a second send_transaction call, polling side by side with the *)
(* caller's, is followed in ConcurrentSpec.                                *)
(***************************************************************************)
EXTENDS Integers, Sequences, FiniteSets, TLC

(***************************************************************************)
(* Bounds of the model.                                                    *)
(***************************************************************************)
\* largest endpoint list of a network
MaxRpc == 2
\* accumulated polling time beyond which no further RPC error is explored
MaxTotalTime == 1500
\* largest reward sample and longest reward window of fee_history
MaxReward == 3
MaxWindow == 2
\* largest chain transaction count
MaxNonce == 1

(***************************************************************************)
(* Program constants.                                                      *)
(***************************************************************************)
\* send_transaction: timeout = 1200, set before the polling loop
NotVisibleBudget == 1200
\* send_transaction: poll_latency: int = 10
DefaultPollLatency == 10
\* send_transaction: timeout: int = 360
DefaultTimeout == 360

(***************************************************************************)
(* Input domains.                                                          *)
(***************************************************************************)
\* poll intervals a caller passes
PollLatencies == {DefaultPollLatency, 500}
\* budgets a caller passes
Timeouts == {120, DefaultTimeout}
\* hashes send_raw_transaction returns
Hashes == {"0xaa", "0xbb"}
\* values of the transaction
Values == {0, 7}
\* network gas prices
GasPrices == {100, 101}
\* gas estimates of the network
GasEstimates == {21001}
\* gas limits a caller fills in before the call
PrefilledGas == {50000}
\* structured and plain messages the RPC layer reports
Messages == {"already known", "nonce too low"}
\* the account's address (derived from the private key in __init__)
Address == "0xabc"

\* Network (utils/core/network.py): the endpoint list is a duplicate-free
\* list of 1..MaxRpc endpoint URIs (endpoint i stands for the i-th URI).
Networks ==
    { [rpc |-> [i \in 1..n |-> i], chain_id |-> 1, eip1559_support |-> f] :
        n \in 1..MaxRpc, f \in BOOLEAN }

Range(s) == { s[i] : i \in DOMAIN s }

(***************************************************************************)
(* Values.                                                                 *)
(***************************************************************************)
NoHash == ""
EmptyDict == [k \in {} |-> 0]

\* Exceptions of the RPC layer, by the shape of args: a structured payload
\* (a dict, with or without a 'message' key), a plain string, or no
\* argument at all.  text is the message, or the payload without message.
RpcErrors ==
    { [args |-> "dict", has_message |-> TRUE, text |-> m] : m \in Messages }
    \cup { [args |-> "dict", has_message |-> FALSE, text |-> "{'code': -32000}"] }
    \cup { [args |-> "str", has_message |-> FALSE, text |-> m] : m \in Messages }
    \cup { [args |-> "none", has_message |-> FALSE, text |-> ""] }

NoError == [args |-> "no error", has_message |-> FALSE, text |-> ""]

\* str(error) of Python: the single argument, the repr of a dict payload,
\* or the empty string.
Str(error) ==
    IF error.args = "dict" /\ error.has_message
    THEN "{'message': '" \o error.text \o "'}"
    ELSE error.text

\* The value get_normalize_error returns: the 'message' string of a dict
\* payload, otherwise the exception object itself (which formats as
\* str(error)).
get_normalize_error(error) ==
    IF error.args = "dict" /\ error.has_message
    THEN [type |-> "str", text |-> error.text]
    ELSE [type |-> "Exception", text |-> Str(error)]

\* f'{value}'
Format(value) == value.text

\* value == 'literal' of Python: an exception object never equals a str.
EqualsStr(value, literal) == value.type = "str" /\ value.text = literal

\* int(x * 1.5) for a non-negative integer x
IntTimes15(x) == (x * 3) \div 2

\* The outcome of a call as its caller sees it.  context is the exception
\* that was being handled when the raised exception was created.
Result(op, kind, type, msg, hash, context) ==
    [op |-> op, kind |-> kind, type |-> type, msg |-> msg, hash |-> hash,
     context |-> context]
NoResult == Result("none", "none", "None", "", NoHash, "")

\* raise BlockchainException(f'{self.get_normalize_error(error)}')
RaiseBlockchain(op, text, context) ==
    Result(op, "raise", "BlockchainException", text, NoHash, context)

\* Responses of get_transaction_receipt: a receipt (with or without a
\* status), TransactionNotFound, or any other exception.
Statuses == {0, 1, 2}
Receipt(has, s) == [kind |-> "receipt", has_status |-> has, status |-> s]
NoResponse == [kind |-> "none", has_status |-> FALSE, status |-> 0]
NotFound == [kind |-> "not_found", has_status |-> FALSE, status |-> 0]
QueryError == [kind |-> "error", has_status |-> FALSE, status |-> 0]
Responses ==
    { Receipt(TRUE, s) : s \in Statuses }
    \cup { Receipt(FALSE, 0), NotFound, QueryError }

\* An RPC request: the method and, for a receipt query, the hash asked for.
Request(method, arg) == [method |-> method, arg |-> arg]

\* no endpoint: no lookup is waiting for its answer
NoEndpoint == 0

\* What the lookups of prepare_transaction were answered: the transaction
\* count, the gas price and the reward window of fee_history; failed names
\* the lookup that raised exc, "none" when every lookup answered; asked is
\* the endpoint the lookup that is still waiting was sent to.
Answers(nonce, gas_price, reward, failed, exc, asked) ==
    [nonce |-> nonce, gas_price |-> gas_price, reward |-> reward,
     failed |-> failed, exc |-> exc, asked |-> asked]
NoAnswers == Answers(0, 0, <<>>, "none", NoError, NoEndpoint)

\* Messages of the exceptions the poller creates (the source's texts are
\* Russian; the explorer link is left out).
TimeExhaustedMsg == "transaction is not in the chain after 1200 seconds"
NotExecutedMsg == "transaction was not executed"

(***************************************************************************)
(* State.                                                                  *)
(***************************************************************************)
VARIABLES
    network,      \* self.network
    rpc,          \* self.rpc
    w3,           \* the endpoint of the provider of self.w3
    last_log,     \* level of the last entry change_rpc wrote to the logger
    swap_calls,   \* the number of change_rpc calls made so far, modulo 2: it
                  \* changes in the steps of change_rpc and in no other
    pc,           \* position of the running call: "idle" between calls,
                  \* the await it is suspended in, "done" when
                  \* prepare_transaction or send_transaction has returned or
                  \* raised
    call,         \* send_transaction: the arguments as the caller passed them
    transaction,  \* send_transaction: the transaction dict
    timeout,      \* send_transaction: the variable timeout
    tx_hash,      \* send_transaction: tx_hash
    total_time,   \* send_transaction: total_time
    error,        \* send_transaction: the exception the broadcast raised,
                  \* bound by the except clause that handles it
    response,     \* send_transaction: the answer of the receipt query that
                  \* has not been handled yet
    value,        \* prepare_transaction: the argument value
    tx_params,    \* prepare_transaction: tx_params; until the running call
                  \* has created its dict, the request of the call before
    result,       \* what the last finished call returned or raised
    chain_nonce,  \* the chain: the transaction count of the account
    answered,     \* prepare_transaction: what the lookups of the call were
                  \* answered
    issued,       \* the RPC requests the running call has made, in order
    delay,        \* send_transaction: the argument of the asyncio.sleep the
                  \* poller is suspended in, 0 when it is not sleeping
    other         \* the frame of a second poller running concurrently

vars == <<network, rpc, w3, last_log, swap_calls, pc, call, transaction, timeout,
          tx_hash, total_time, error, response, value, tx_params, result,
          chain_nonce, answered, issued, delay, other>>

NoCall == [need_hash |-> FALSE, without_gas |-> FALSE,
           poll_latency |-> DefaultPollLatency, timeout |-> DefaultTimeout]

\* The locals of the polling loop of a send_transaction call that runs
\* concurrently with the caller's.
Poller(ppc, need_hash, poll_latency, budget, hash, total, resp, sleep, res) ==
    [pc |-> ppc, need_hash |-> need_hash, poll_latency |-> poll_latency,
     timeout |-> budget, tx_hash |-> hash, total_time |-> total,
     response |-> resp, delay |-> sleep, result |-> res]
NoPoller == Poller("idle", FALSE, DefaultPollLatency, DefaultTimeout, NoHash,
                   0, NoResponse, 0, NoResult)

\* The locals of the calls when no call is running.
FrameCleared ==
    /\ call' = NoCall
    /\ value' = 0
    /\ transaction' = EmptyDict
    /\ timeout' = DefaultTimeout
    /\ tx_hash' = NoHash
    /\ total_time' = 0
    /\ error' = NoError
    /\ response' = NoResponse
    /\ issued' = <<>>
    /\ delay' = 0

\* Client.__init__: self.rpc = random.choice(self.network.rpc), and
\* self.w3 is connected to self.rpc.
Init ==
    /\ network \in Networks
    /\ rpc \in Range(network.rpc)
    /\ w3 = rpc
    /\ last_log = "none"
    /\ swap_calls = 0
    /\ pc = "idle"
    /\ call = NoCall
    /\ transaction = EmptyDict
    /\ timeout = DefaultTimeout
    /\ tx_hash = NoHash
    /\ total_time = 0
    /\ error = NoError
    /\ response = NoResponse
    /\ value = 0
    /\ tx_params = EmptyDict
    /\ result = NoResult
    /\ chain_nonce = 0
    /\ answered = NoAnswers
    /\ issued = <<>>
    /\ delay = 0
    /\ other = NoPoller

(***************************************************************************)
(* change_rpc                                                              *)
(***************************************************************************)
\* rpcs_list = [rpc for rpc in self.network.rpc if rpc != self.rpc]
rpcs_list(net, current) == SelectSeq(net.rpc, LAMBDA r : r # current)

\* The lookups prepare_transaction makes, in order; fee_history is only
\* queried on a priority-fee network.
LookupOrder(eip1559_support) ==
    IF eip1559_support
    THEN <<"get_transaction_count", "gas_price", "fee_history">>
    ELSE <<"get_transaction_count", "gas_price">>

\* the call is suspended in one of the lookups of prepare_transaction
InLookup == pc \in Range(LookupOrder(TRUE))

\* No call is running, or the running call is suspended in an await and
\* waits for the answer: the event loop can run another coroutine.  (The
\* call resumes with the answer, or the exception, once it has arrived.)
Suspended ==
    \/ pc = "idle"
    \/ InLookup
    \/ pc \in {"estimate_gas", "send_raw", "poll", "sleep"}

\* What the caller sees of a change_rpc: between its calls the caller makes
\* the call itself; while its call is suspended another coroutine makes it
\* and takes the return.
ChangeRpcResult(outcome) == IF pc = "idle" THEN outcome ELSE result

\* change_rpc without the test of the list's length: random.choice of an
\* empty candidate list raises IndexError
change_rpc_no_length_test ==
    /\ Suspended
    /\ IF rpcs_list(network, rpc) # <<>>
       THEN /\ \E new_rpc \in Range(rpcs_list(network, rpc)) : w3' = new_rpc
            /\ last_log' = "success"
            /\ result' = ChangeRpcResult(
                   Result("change_rpc", "return", "None", "", NoHash, ""))
       ELSE /\ w3' = w3
            /\ last_log' = "warning"
            /\ result' = ChangeRpcResult(
                   Result("change_rpc", "raise", "IndexError",
                          "Cannot choose from an empty sequence", NoHash, ""))
    /\ swap_calls' = 1 - swap_calls
    /\ UNCHANGED <<value, chain_nonce, answered, issued, delay, other>>
    /\ UNCHANGED <<network, rpc, pc, call, transaction, timeout, tx_hash,
                   total_time, error, response, tx_params>>

\* change_rpc has no await: it runs in one piece, between the caller's
\* calls or while the caller's call is suspended
change_rpc ==
    /\ Suspended
    /\ IF Len(network.rpc) # 1
       THEN /\ \E new_rpc \in Range(rpcs_list(network, rpc)) : w3' = new_rpc
            /\ last_log' = "success"
       ELSE /\ w3' = w3
            /\ last_log' = "error"
    /\ result' = ChangeRpcResult(
           Result("change_rpc", "return", "None", "", NoHash, ""))
    /\ swap_calls' = 1 - swap_calls
    /\ UNCHANGED <<value, chain_nonce, answered, issued, delay, other>>
    /\ UNCHANGED <<network, rpc, pc, call, transaction, timeout, tx_hash,
                   total_time, error, response, tx_params>>

(***************************************************************************)
(* get_priotiry_fee and prepare_transaction                                *)
(***************************************************************************)
\* fee_history["reward"]: one list per block, holding the reward of the
\* one requested percentile
ScenarioWindow == << <<5>>, <<0>>, <<3>>, <<0>> >>
RewardWindows ==
    UNION { [1..n -> { <<v>> : v \in 0..MaxReward }] : n \in 0..MaxWindow }
    \cup {ScenarioWindow}

RECURSIVE SumSeq(_)
SumSeq(s) == IF s = <<>> THEN 0 ELSE Head(s) + SumSeq(Tail(s))

\* [fee[0] for fee in fee_history["reward"] if fee[0] != 0]
non_empty_block_priority_fees(reward) ==
    LET firsts == [i \in DOMAIN reward |-> reward[i][1]]
    IN  SelectSeq(firsts, LAMBDA v : v # 0)

\* n / d rounded with a tie going up
RoundDiv_half_up(n, d) == (2 * n + d) \div (2 * d)

\* round(n / d) of Python for n >= 0, d > 0: to the nearest integer, a tie
\* goes to the even neighbour
RoundDiv(n, d) ==
    LET q == n \div d
        r == n % d
    IN  IF 2 * r < d THEN q
        ELSE IF 2 * r > d THEN q + 1
        ELSE IF q % 2 = 0 THEN q ELSE q + 1

Max(a, b) == IF a >= b THEN a ELSE b

get_priotiry_fee(reward) ==
    LET fees == non_empty_block_priority_fees(reward)
        divisor_priority == Max(Len(fees), 1)
    IN  RoundDiv(SumSeq(fees), divisor_priority)

\* tx_params before the pricing fields are added
BaseParams(nonce) ==
    [from |-> Address, nonce |-> nonce, value |-> value,
     chainId |-> network.chain_id]

\* the pricing fields with gasPrice set whatever the flag is
Pricing_gas_price_always(eip1559_support, gas_price, reward) ==
    LET legacy == [gasPrice |-> IntTimes15(gas_price)]
    IN  IF eip1559_support
        THEN [maxPriorityFeePerGas |-> get_priotiry_fee(reward),
              maxFeePerGas |-> IntTimes15(gas_price + get_priotiry_fee(reward)),
              type |-> "0x2"] @@ legacy
        ELSE legacy

\* the pricing fields with the margin on the base fee only
Pricing_margin_on_base_fee(eip1559_support, gas_price, reward) ==
    IF eip1559_support
    THEN [maxPriorityFeePerGas |-> get_priotiry_fee(reward),
          maxFeePerGas |-> IntTimes15(gas_price) + get_priotiry_fee(reward),
          type |-> "0x2"]
    ELSE [gasPrice |-> IntTimes15(gas_price)]

\* the pricing fields prepare_transaction adds for the network's flag
Pricing(eip1559_support, gas_price, reward) ==
    IF eip1559_support
    THEN LET base_fee == gas_price
             max_priority_fee_per_gas == get_priotiry_fee(reward)
             max_fee_per_gas == base_fee + max_priority_fee_per_gas
         IN  [maxPriorityFeePerGas |-> max_priority_fee_per_gas,
              maxFeePerGas |-> IntTimes15(max_fee_per_gas),
              type |-> "0x2"]
    ELSE [gasPrice |-> IntTimes15(gas_price)]

\* prepare_transaction(value) is called: the call runs up to its first
\* await, the lookup of the transaction count, sent to the active endpoint
prepare_transaction ==
    /\ pc = "idle"
    /\ value' \in Values
    /\ answered' = Answers(0, 0, <<>>, "none", NoError, w3)
    /\ issued' = <<Request("get_transaction_count", "")>>
    /\ result' = NoResult
    /\ pc' = "get_transaction_count"
    /\ UNCHANGED tx_params
    /\ UNCHANGED <<chain_nonce, delay, other>>
    /\ UNCHANGED <<swap_calls, network, rpc, w3, last_log, call, transaction, timeout,
                   tx_hash, total_time, error, response>>

\* the nonce taken from the request built before, when there is one,
\* instead of the answer of the chain
get_transaction_count_ok_nonce_kept ==
    /\ pc = "get_transaction_count"
    /\ LET nonce == IF "nonce" \in DOMAIN tx_params
                     THEN tx_params.nonce ELSE chain_nonce
       IN  /\ tx_params' = BaseParams(nonce)
           /\ answered' = [answered EXCEPT !.nonce = nonce, !.asked = w3]
    /\ issued' = Append(issued, Request("gas_price", ""))
    /\ pc' = "gas_price"
    /\ UNCHANGED <<value, result>>
    /\ UNCHANGED <<chain_nonce, delay, other>>
    /\ UNCHANGED <<swap_calls, network, rpc, w3, last_log, call, transaction, timeout,
                   tx_hash, total_time, error, response>>

\* get_transaction_count answers with the count the chain has now: the
\* dict tx_params is created, and the call goes on to its next await, the
\* lookup of the gas price, sent to the endpoint that is active now
get_transaction_count_ok ==
    /\ pc = "get_transaction_count"
    /\ LET nonce == chain_nonce
       IN  /\ tx_params' = BaseParams(nonce)
           /\ answered' = [answered EXCEPT !.nonce = nonce, !.asked = w3]
    /\ issued' = Append(issued, Request("gas_price", ""))
    /\ pc' = "gas_price"
    /\ UNCHANGED <<value, result>>
    /\ UNCHANGED <<chain_nonce, delay, other>>
    /\ UNCHANGED <<swap_calls, network, rpc, w3, last_log, call, transaction, timeout,
                   tx_hash, total_time, error, response>>

\* gas_price answers.  On a priority-fee network it is the base fee and
\* the call goes on to get_priotiry_fee, which awaits fee_history; on a
\* legacy network gasPrice is entered and the request returned.
gas_price_ok ==
    /\ pc = "gas_price"
    /\ \E price \in GasPrices :
          IF network.eip1559_support
          THEN /\ answered' = [answered EXCEPT !.gas_price = price,
                                                !.asked = w3]
               /\ issued' = Append(issued, Request("fee_history", ""))
               /\ pc' = "fee_history"
               /\ UNCHANGED <<tx_params, result>>
          ELSE /\ answered' = [answered EXCEPT !.gas_price = price,
                                                !.asked = NoEndpoint]
               /\ tx_params' = tx_params @@ Pricing(FALSE, price, <<>>)
               /\ result' = Result("prepare_transaction", "return", "dict", "", NoHash, "")
               /\ pc' = "done"
               /\ UNCHANGED issued
    /\ UNCHANGED value
    /\ UNCHANGED <<chain_nonce, delay, other>>
    /\ UNCHANGED <<swap_calls, network, rpc, w3, last_log, call, transaction, timeout,
                   tx_hash, total_time, error, response>>

\* the mean taken over len(fees): a window without a non-zero sample
\* divides by zero, and the ZeroDivisionError is wrapped like every other
\* exception
fee_history_ok_plain_division ==
    /\ pc = "fee_history"
    /\ \E reward \in RewardWindows :
          LET raises == non_empty_block_priority_fees(reward) = <<>>
          IN  /\ tx_params' =
                     IF raises THEN tx_params
                     ELSE tx_params @@ Pricing(TRUE, answered.gas_price, reward)
              /\ answered' = [answered EXCEPT !.reward = reward,
                                               !.asked = NoEndpoint]
              /\ result' =
                     IF raises
                     THEN RaiseBlockchain("prepare_transaction",
                                          "division by zero", "ZeroDivisionError")
                     ELSE Result("prepare_transaction", "return", "dict", "", NoHash, "")
    /\ pc' = "done"
    /\ UNCHANGED <<value, issued>>
    /\ UNCHANGED <<chain_nonce, delay, other>>
    /\ UNCHANGED <<swap_calls, network, rpc, w3, last_log, call, transaction, timeout,
                   tx_hash, total_time, error, response>>

\* fee_history answers: get_priotiry_fee returns the priority fee, the
\* three priority-fee fields are entered and the request is returned
fee_history_ok ==
    /\ pc = "fee_history"
    /\ \E reward \in RewardWindows :
          /\ tx_params' = tx_params @@ Pricing(TRUE, answered.gas_price, reward)
          /\ answered' = [answered EXCEPT !.reward = reward,
                                           !.asked = NoEndpoint]
    /\ result' = Result("prepare_transaction", "return", "dict", "", NoHash, "")
    /\ pc' = "done"
    /\ UNCHANGED <<value, issued>>
    /\ UNCHANGED <<chain_nonce, delay, other>>
    /\ UNCHANGED <<swap_calls, network, rpc, w3, last_log, call, transaction, timeout,
                   tx_hash, total_time, error, response>>

\* the exception of a lookup logged and the request returned as far as it
\* was filled
prepare_transaction_fail_returns_partial ==
    /\ InLookup
    /\ \E exc \in RpcErrors :
          answered' = [answered EXCEPT !.failed = pc, !.exc = exc,
                                       !.asked = NoEndpoint]
    /\ result' = Result("prepare_transaction", "return", "dict", "", NoHash, "")
    /\ tx_params' = IF pc = "get_transaction_count" THEN EmptyDict
                    ELSE tx_params
    /\ pc' = "done"
    /\ UNCHANGED <<value, issued>>
    /\ UNCHANGED <<chain_nonce, delay, other>>
    /\ UNCHANGED <<swap_calls, network, rpc, w3, last_log, call, transaction, timeout,
                   tx_hash, total_time, error, response>>

\* The lookup the call is suspended in raises exc: the except clause
\* raises BlockchainException.  When the first lookup raises, no dict has
\* been created.
prepare_transaction_fail ==
    /\ InLookup
    /\ \E exc \in RpcErrors :
          /\ answered' = [answered EXCEPT !.failed = pc, !.exc = exc,
                                           !.asked = NoEndpoint]
          /\ result' = RaiseBlockchain("prepare_transaction",
                                       Format(get_normalize_error(exc)),
                                       "RpcError")
    /\ tx_params' = IF pc = "get_transaction_count" THEN EmptyDict
                    ELSE tx_params
    /\ pc' = "done"
    /\ UNCHANGED <<value, issued>>
    /\ UNCHANGED <<chain_nonce, delay, other>>
    /\ UNCHANGED <<swap_calls, network, rpc, w3, last_log, call, transaction, timeout,
                   tx_hash, total_time, error, response>>

(***************************************************************************)
(* send_transaction                                                        *)
(***************************************************************************)
\* Transaction requests a caller passes: a built legacy request, with or
\* without a gas limit filled in.
BuiltRequest ==
    [from |-> Address, nonce |-> 0, value |-> 0, chainId |-> 1,
     gasPrice |-> IntTimes15(100)]
Requests == {BuiltRequest} \cup { [gas |-> g] @@ BuiltRequest : g \in PrefilledGas }

Calls == [need_hash : BOOLEAN, without_gas : BOOLEAN,
          poll_latency : PollLatencies, timeout : Timeouts]

\* The call: the arguments are bound; gas is estimated first unless
\* without_gas is set.  What an earlier prepare_transaction left behind
\* is not followed further.
SendTransaction(calls, requests) ==
    /\ pc = "idle"
    /\ \E c \in calls, t \in requests :
          /\ call' = c
          /\ transaction' = t
          /\ timeout' = c.timeout
          /\ pc' = IF ~c.without_gas THEN "estimate_gas" ELSE "send_raw"
    /\ tx_hash' = NoHash
    /\ total_time' = 0
    /\ error' = NoError
    /\ response' = NoResponse
    /\ tx_params' = EmptyDict
    /\ result' = NoResult
    /\ answered' = NoAnswers
    /\ issued' = <<>>
    /\ delay' = 0
    /\ UNCHANGED <<value, chain_nonce, other>>
    /\ UNCHANGED <<swap_calls, network, rpc, w3, last_log>>

\* the estimate entered only into a request that has no gas limit
estimate_gas_ok_keeps_prefilled ==
    /\ pc = "estimate_gas"
    /\ \E estimate \in GasEstimates :
          transaction' = transaction @@ [gas |-> IntTimes15(estimate)]
    /\ issued' = Append(issued, Request("estimate_gas", ""))
    /\ pc' = "send_raw"
    /\ UNCHANGED <<value, chain_nonce, answered, delay, other>>
    /\ UNCHANGED <<swap_calls, network, rpc, w3, last_log, call, timeout, tx_hash,
                   total_time, error, response, tx_params, result>>

send_transaction == SendTransaction(Calls, Requests)

\* transaction['gas'] = int((await self.w3.eth.estimate_gas(transaction)) * 1.5)
estimate_gas_ok ==
    /\ pc = "estimate_gas"
    /\ \E estimate \in GasEstimates :
          transaction' = [gas |-> IntTimes15(estimate)] @@ transaction
    /\ issued' = Append(issued, Request("estimate_gas", ""))
    /\ pc' = "send_raw"
    /\ UNCHANGED <<value, chain_nonce, answered, delay, other>>
    /\ UNCHANGED <<swap_calls, network, rpc, w3, last_log, call, timeout, tx_hash,
                   total_time, error, response, tx_params, result>>

\* the exception of estimate_gas logged and the call carried on
estimate_gas_fail_carries_on ==
    /\ pc = "estimate_gas"
    /\ issued' = Append(issued, Request("estimate_gas", ""))
    /\ pc' = "send_raw"
    /\ UNCHANGED <<value, chain_nonce, answered, delay, other>>
    /\ UNCHANGED <<swap_calls, network, rpc, w3, last_log, call, transaction, timeout,
                   tx_hash, total_time, error, response, tx_params, result>>

\* estimate_gas raises: BlockchainException
estimate_gas_fail ==
    /\ pc = "estimate_gas"
    /\ \E exc \in RpcErrors :
          result' = RaiseBlockchain("send_transaction",
                                    Format(get_normalize_error(exc)),
                                    "RpcError")
    /\ issued' = Append(issued, Request("estimate_gas", ""))
    /\ pc' = "done"
    /\ UNCHANGED <<value, chain_nonce, answered, delay, other>>
    /\ UNCHANGED <<swap_calls, network, rpc, w3, last_log, call, transaction, timeout,
                   tx_hash, total_time, error, response, tx_params>>

\* sign_transaction and send_raw_transaction succeed; the polling loop is
\* entered with total_time = 0 and timeout = 1200.
broadcast_ok ==
    /\ pc = "send_raw"
    /\ \E h \in Hashes : tx_hash' = h
    /\ issued' = issued \o <<Request("sign_transaction", ""),
                              Request("send_raw_transaction", "")>>
    /\ total_time' = 0
    /\ timeout' = NotVisibleBudget
    /\ pc' = "poll"
    /\ UNCHANGED <<value, chain_nonce, answered, delay, other>>
    /\ UNCHANGED <<swap_calls, network, rpc, w3, last_log, call, transaction, error,
                   response, tx_params, result>>

\* self.get_normalize_error(error) == 'already known'
IsAlreadyKnown(exc) == EqualsStr(get_normalize_error(exc), "already known")

\* sign_transaction or send_raw_transaction raises: the except clause
\* binds the exception
broadcast_raises ==
    /\ pc = "send_raw"
    /\ error' \in RpcErrors
    /\ \/ issued' = Append(issued, Request("sign_transaction", ""))
       \/ issued' = issued \o <<Request("sign_transaction", ""),
                                 Request("send_raw_transaction", "")>>
    /\ pc' = "broadcast_except"
    /\ UNCHANGED <<value, chain_nonce, answered, delay, other>>
    /\ UNCHANGED <<swap_calls, network, rpc, w3, last_log, call, transaction, timeout,
                   tx_hash, total_time, response, tx_params, result>>

\* the except clause of the broadcast: return True for 'already known',
\* otherwise raise BlockchainException
broadcast_except ==
    /\ pc = "broadcast_except"
    /\ result' = IF IsAlreadyKnown(error)
                 THEN Result("send_transaction", "return", "bool", "True",
                             NoHash, "")
                 ELSE RaiseBlockchain("send_transaction",
                                      Format(get_normalize_error(error)),
                                      "RpcError")
    /\ pc' = "done"
    /\ UNCHANGED <<value, chain_nonce, answered, issued, delay, other>>
    /\ UNCHANGED <<swap_calls, network, rpc, w3, last_log, call, transaction, timeout,
                   tx_hash, total_time, error, response, tx_params>>

\* a request recorded once however often the loop repeats it
AppendOnce(requests, request) ==
    IF requests # <<>> /\ requests[Len(requests)] = request
    THEN requests
    ELSE Append(requests, request)

\* receipts = await self.w3.eth.get_transaction_receipt(tx_hash): the
\* endpoint answers; the answer is handled, and with it consumed, by the
\* next step.  RPC errors are explored up to MaxTotalTime.
QueryReceipt(answers) ==
    /\ pc = "poll"
    /\ \E r \in answers :
          /\ r.kind = "error" => total_time <= MaxTotalTime
          /\ response' = r
    /\ issued' = AppendOnce(issued, Request("get_transaction_receipt", tx_hash))
    /\ pc' = "receipt"
    /\ UNCHANGED <<value, chain_nonce, answered, delay, other>>
    /\ UNCHANGED <<swap_calls, network, rpc, w3, last_log, call, transaction, timeout,
                   tx_hash, total_time, error, tx_params, result>>

query_receipt == QueryReceipt(Responses)

\* what send_transaction returns for a receipt with status 1
ConfirmedResult(need_hash, hash) ==
    IF need_hash
    THEN Result("send_transaction", "return", "HexBytes", "", hash, "")
    ELSE Result("send_transaction", "return", "bool", "True", NoHash, "")

\* a status-1 receipt handled after a look at the budget
receipt_success_budget_first ==
    /\ pc = "receipt"
    /\ response.kind = "receipt" /\ response.has_status /\ response.status = 1
    /\ result' = IF total_time > timeout
                 THEN RaiseBlockchain("send_transaction", TimeExhaustedMsg,
                                      "TimeExhausted")
                 ELSE ConfirmedResult(call.need_hash, tx_hash)
    /\ pc' = "done"
    /\ response' = NoResponse
    /\ UNCHANGED <<value, chain_nonce, answered, issued, delay, other>>
    /\ UNCHANGED <<swap_calls, network, rpc, w3, last_log, call, transaction, timeout,
                   tx_hash, total_time, error, tx_params>>

\* if status == 1: return tx_hash or True
receipt_success ==
    /\ pc = "receipt"
    /\ response.kind = "receipt" /\ response.has_status /\ response.status = 1
    /\ result' = ConfirmedResult(call.need_hash, tx_hash)
    /\ pc' = "done"
    /\ response' = NoResponse
    /\ UNCHANGED <<value, chain_nonce, answered, issued, delay, other>>
    /\ UNCHANGED <<swap_calls, network, rpc, w3, last_log, call, transaction, timeout,
                   tx_hash, total_time, error, tx_params>>

\* a pending receipt counted like a failed lookup
receipt_pending_counted ==
    /\ pc = "receipt"
    /\ response.kind = "receipt" /\ ~response.has_status
    /\ total_time' = total_time + call.poll_latency
    /\ pc' = "sleep"
    /\ delay' = call.poll_latency
    /\ response' = NoResponse
    /\ UNCHANGED <<value, chain_nonce, answered, issued, other>>
    /\ UNCHANGED <<swap_calls, network, rpc, w3, last_log, call, transaction, timeout,
                   tx_hash, error, tx_params, result>>

\* elif status is None: await asyncio.sleep(poll_latency)
receipt_pending ==
    /\ pc = "receipt"
    /\ response.kind = "receipt" /\ ~response.has_status
    /\ pc' = "sleep"
    /\ delay' = call.poll_latency
    /\ response' = NoResponse
    /\ UNCHANGED <<value, chain_nonce, answered, issued, other>>
    /\ UNCHANGED <<swap_calls, network, rpc, w3, last_log, call, transaction, timeout,
                   tx_hash, total_time, error, tx_params, result>>

\* the failure raised instead of returned: the outer except clause wraps it
receipt_failed_raised ==
    /\ pc = "receipt"
    /\ response.kind = "receipt" /\ response.has_status /\ response.status # 1
    /\ result' = RaiseBlockchain("send_transaction", NotExecutedMsg,
                                 "SoftwareException")
    /\ pc' = "done"
    /\ response' = NoResponse
    /\ UNCHANGED <<value, chain_nonce, answered, issued, delay, other>>
    /\ UNCHANGED <<swap_calls, network, rpc, w3, last_log, call, transaction, timeout,
                   tx_hash, total_time, error, tx_params>>

\* else: return SoftwareException(...)
receipt_failed ==
    /\ pc = "receipt"
    /\ response.kind = "receipt" /\ response.has_status /\ response.status # 1
    /\ result' = Result("send_transaction", "return", "SoftwareException",
                        NotExecutedMsg, NoHash, "")
    /\ pc' = "done"
    /\ response' = NoResponse
    /\ UNCHANGED <<value, chain_nonce, answered, issued, delay, other>>
    /\ UNCHANGED <<swap_calls, network, rpc, w3, last_log, call, transaction, timeout,
                   tx_hash, total_time, error, tx_params>>

\* the budget test with >= in place of >
BudgetExceeded_at_budget(total, budget) == total >= budget

\* if total_time > timeout
BudgetExceeded(total, budget) == total > budget

\* the TimeExhausted reaching the caller as it was raised, with no outer
\* except clause
TimedOutResult_unwrapped ==
    Result("send_transaction", "raise", "TimeExhausted", TimeExhaustedMsg,
           NoHash, "TransactionNotFound")

\* The TimeExhausted raised in the TransactionNotFound handler leaves the
\* loop and meets the outer except clause, which raises BlockchainException
\* with its message (a plain string argument).
TimedOutResult ==
    RaiseBlockchain("send_transaction",
                    Format(get_normalize_error(
                        [args |-> "str", has_message |-> FALSE,
                         text |-> TimeExhaustedMsg])),
                    "TimeExhausted")

\* except TransactionNotFound
receipt_not_found ==
    /\ pc = "receipt"
    /\ response.kind = "not_found"
    /\ IF BudgetExceeded(total_time, timeout)
       THEN /\ result' = TimedOutResult
            /\ pc' = "done"
            /\ total_time' = total_time
            /\ delay' = delay
       ELSE /\ total_time' = total_time + call.poll_latency
            /\ pc' = "sleep"
            /\ delay' = call.poll_latency
            /\ result' = result
    /\ response' = NoResponse
    /\ UNCHANGED <<value, chain_nonce, answered, issued, other>>
    /\ UNCHANGED <<swap_calls, network, rpc, w3, last_log, call, transaction, timeout,
                   tx_hash, error, tx_params>>

\* the accumulated time kept in one place for every poller of the process:
\* a failed lookup is added to the other poller's time as well
receipt_error_shared_total ==
    /\ pc = "receipt"
    /\ response.kind = "error"
    /\ total_time' = total_time + call.poll_latency
    /\ other' = IF other.pc \in {"poll", "receipt", "sleep"}
                THEN [other EXCEPT !.total_time = @ + call.poll_latency]
                ELSE other
    /\ pc' = "sleep"
    /\ delay' = call.poll_latency
    /\ response' = NoResponse
    /\ UNCHANGED <<value, chain_nonce, answered, issued>>
    /\ UNCHANGED <<swap_calls, network, rpc, w3, last_log, call, transaction, timeout,
                   tx_hash, error, tx_params, result>>

\* except Exception: logged, total_time += poll_latency, sleep
receipt_error ==
    /\ pc = "receipt"
    /\ response.kind = "error"
    /\ total_time' = total_time + call.poll_latency
    /\ pc' = "sleep"
    /\ delay' = call.poll_latency
    /\ response' = NoResponse
    /\ UNCHANGED <<value, chain_nonce, answered, issued, other>>
    /\ UNCHANGED <<swap_calls, network, rpc, w3, last_log, call, transaction, timeout,
                   tx_hash, error, tx_params, result>>

\* await asyncio.sleep(poll_latency) is over: the loop goes round
asyncio_sleep ==
    /\ pc = "sleep"
    /\ pc' = "poll"
    /\ delay' = 0
    /\ UNCHANGED <<swap_calls, network, rpc, w3, last_log, call, transaction, timeout,
                   tx_hash, total_time, error, response, value, tx_params,
                   result, chain_nonce, answered, issued, other>>

\* The chain moves on: a transaction of the account is included and its
\* transaction count grows, between the calls or while the call is
\* suspended.
chain_advances ==
    /\ Suspended
    /\ chain_nonce < MaxNonce
    /\ chain_nonce' = chain_nonce + 1
    /\ UNCHANGED <<swap_calls, network, rpc, w3, last_log, pc, call, transaction, timeout,
                   tx_hash, total_time, error, response, value, tx_params,
                   result, answered, issued, delay, other>>

\* The caller takes what the call returned or raised: the frame of the
\* finished call is gone.
return_to_caller ==
    /\ pc = "done"
    /\ pc' = "idle"
    /\ FrameCleared
    /\ answered' = NoAnswers
    /\ UNCHANGED <<chain_nonce, other>>
    /\ UNCHANGED <<swap_calls, network, rpc, w3, last_log, tx_params, result>>

(***************************************************************************)
(* A second poller.  Two send_transaction calls, on one Client or on two,  *)
(* run as two coroutines, each with its own locals; the event loop         *)
(* switches between them where they await.  The second call is followed    *)
(* from the return of its broadcast.                                       *)
(***************************************************************************)
\* One pass through the body of the loop for the answer in f.response:
\* lines 146-165 on the locals f.
PollerHandle(f) ==
    LET r == f.response
        ends(res) == [f EXCEPT !.pc = "done", !.result = res,
                               !.response = NoResponse]
        sleeps(total) == [f EXCEPT !.pc = "sleep", !.total_time = total,
                                   !.delay = f.poll_latency,
                                   !.response = NoResponse]
    IN  IF r.kind = "receipt"
        THEN IF r.has_status /\ r.status = 1
             THEN ends(ConfirmedResult(f.need_hash, f.tx_hash))
             ELSE IF ~r.has_status
             THEN sleeps(f.total_time)
             ELSE ends(Result("send_transaction", "return", "SoftwareException",
                              NotExecutedMsg, NoHash, ""))
        ELSE IF r.kind = "not_found"
        THEN IF BudgetExceeded(f.total_time, f.timeout)
             THEN ends(TimedOutResult)
             ELSE sleeps(f.total_time + f.poll_latency)
        ELSE sleeps(f.total_time + f.poll_latency)

\* the locals of the caller's send_transaction as a poller's frame
MainFrame ==
    Poller(pc, call.need_hash, call.poll_latency, timeout, tx_hash,
           total_time, response, delay, result)

OtherUnchanged ==
    UNCHANGED <<swap_calls, network, rpc, w3, last_log, pc, call, transaction, timeout,
                tx_hash, total_time, error, response, value, tx_params,
                result, chain_nonce, answered, issued, delay>>

\* poll intervals of the calls that run side by side
ConcurrentLatencies == {500}

\* the second call's broadcast has returned: its loop starts
other_send_transaction ==
    /\ other.pc = "idle"
    /\ \E need_hash \in BOOLEAN, poll_latency \in ConcurrentLatencies,
          h \in Hashes :
          other' = Poller("poll", need_hash, poll_latency, NotVisibleBudget, h,
                          0, NoResponse, 0, NoResult)
    /\ OtherUnchanged

\* receipts = await self.w3.eth.get_transaction_receipt(tx_hash)
other_query_receipt ==
    /\ other.pc = "poll"
    /\ \E r \in Responses :
          /\ r.kind = "error" => other.total_time <= MaxTotalTime
          /\ other' = [other EXCEPT !.pc = "receipt", !.response = r]
    /\ OtherUnchanged

\* the second poller handles the answer
other_handle ==
    /\ other.pc = "receipt"
    /\ other' = PollerHandle(other)
    /\ OtherUnchanged

\* await asyncio.sleep(poll_latency) of the second poller is over
other_sleep ==
    /\ other.pc = "sleep"
    /\ other' = [other EXCEPT !.pc = "poll", !.delay = 0]
    /\ OtherUnchanged

\* the second call has returned or raised: its frame is gone
other_return ==
    /\ other.pc = "done"
    /\ other' = NoPoller
    /\ OtherUnchanged

(***************************************************************************)
(* Specification.                                                          *)
(***************************************************************************)
Next ==
    \/ change_rpc
    \/ prepare_transaction
    \/ get_transaction_count_ok
    \/ gas_price_ok
    \/ fee_history_ok
    \/ prepare_transaction_fail
    \/ send_transaction
    \/ estimate_gas_ok
    \/ estimate_gas_fail
    \/ broadcast_ok
    \/ broadcast_raises
    \/ broadcast_except
    \/ query_receipt
    \/ receipt_success
    \/ receipt_pending
    \/ receipt_failed
    \/ receipt_not_found
    \/ receipt_error
    \/ asyncio_sleep
    \/ return_to_caller
    \/ chain_advances

Spec == Init /\ [][Next]_vars

TypeOK ==
    /\ network \in Networks
    /\ rpc \in Range(network.rpc)
    /\ w3 \in Range(network.rpc)
    /\ pc \in {"idle", "estimate_gas", "send_raw", "broadcast_except", "poll",
              "receipt", "sleep", "done"} \cup Range(LookupOrder(TRUE))
    /\ value \in Values
    /\ swap_calls \in {0, 1}
    /\ answered.asked \in Range(network.rpc) \cup {NoEndpoint}
    /\ InLookup <=> answered.asked # NoEndpoint
    /\ call \in Calls \cup {NoCall}
    /\ tx_hash \in Hashes \cup {NoHash}
    /\ total_time \in Nat
    /\ error \in RpcErrors \cup {NoError}
    /\ response \in Responses \cup {NoResponse}
    /\ chain_nonce \in 0..MaxNonce
    /\ delay \in PollLatencies \cup {0}
    /\ other.pc \in {"idle", "poll", "receipt", "sleep", "done"}

(***************************************************************************)
(* Runs in which every receipt query fails.                                *)
(***************************************************************************)
query_fails == QueryReceipt({NotFound, QueryError})
query_not_found == QueryReceipt({NotFound})

\* everything but the receipt query and the handling of a receipt
CallSteps ==
    \/ change_rpc
    \/ prepare_transaction
    \/ get_transaction_count_ok
    \/ gas_price_ok
    \/ fee_history_ok
    \/ prepare_transaction_fail
    \/ send_transaction
    \/ estimate_gas_ok
    \/ estimate_gas_fail
    \/ broadcast_ok
    \/ broadcast_raises
    \/ broadcast_except
    \/ asyncio_sleep
    \/ return_to_caller
    \/ chain_advances

\* every receipt query fails, with not-found or with another RPC error
NextFailing ==
    \/ CallSteps
    \/ query_fails
    \/ receipt_not_found
    \/ receipt_error

FailingSpec == Init /\ [][NextFailing]_vars

\* every receipt query reports not-found
NextNotFound ==
    \/ CallSteps
    \/ query_not_found
    \/ receipt_not_found

NotFoundSpec == Init /\ [][NextNotFound]_vars

(***************************************************************************)
(* Two pollers side by side: the caller's call, made with without_gas and  *)
(* followed from its broadcast, and the second poller.                     *)
(***************************************************************************)
ConcurrentCalls ==
    [need_hash : BOOLEAN, without_gas : {TRUE},
     poll_latency : ConcurrentLatencies, timeout : {DefaultTimeout}]

concurrent_send_transaction == SendTransaction(ConcurrentCalls, {BuiltRequest})

ConcurrentInit ==
    /\ Init
    /\ Len(network.rpc) = 1
    /\ ~network.eip1559_support

ConcurrentNext ==
    \/ concurrent_send_transaction
    \/ broadcast_ok
    \/ query_receipt
    \/ receipt_success
    \/ receipt_pending
    \/ receipt_failed
    \/ receipt_not_found
    \/ receipt_error
    \/ asyncio_sleep
    \/ return_to_caller
    \/ other_send_transaction
    \/ other_query_receipt
    \/ other_handle
    \/ other_sleep
    \/ other_return

ConcurrentSpec == ConcurrentInit /\ [][ConcurrentNext]_vars

(***************************************************************************)
(* Outcomes of a submission.                                               *)
(***************************************************************************)
Finished == pc = "done" /\ result.op = "send_transaction"

\* the poller returned success: the hash or True, after a broadcast
Confirmed ==
    /\ Finished
    /\ tx_hash # NoHash
    /\ result.kind = "return"
    /\ result.type \in {"bool", "HexBytes"}

\* the poller returned the on-chain failure
OnChainFailed ==
    /\ Finished
    /\ result.kind = "return"
    /\ result.type = "SoftwareException"

\* the poller gave up: the exception that left it started as TimeExhausted
TimedOut ==
    /\ Finished
    /\ result.kind = "raise"
    /\ result.context = "TimeExhausted"

(***************************************************************************)
(* Claims.                                                                 *)
(***************************************************************************)

\* C1: when every receipt query fails (not-found or any other RPC error),
\* a query that fails once the accumulated time exceeds the budget ends the
\* poller in TimedOut: an RPC error is bounded by the budget like a
\* not-found result, so the poller cannot keep polling.
C1_FailuresBoundedByBudget ==
    [][(pc = "receipt" /\ total_time > timeout) => TimedOut']_vars

\* C2: when every lookup reports not-found, the poller times out at the first
\* lookup at which the accumulated time exceeds the budget the caller gave:
\* the time accumulated at TimedOut exceeds call.timeout by at most one
\* interval (130 for interval 10 and budget 120).
C2_TimesOutAtCallersBudget ==
    TimedOut =>
        /\ total_time > call.timeout
        /\ total_time - call.poll_latency <= call.timeout

\* C3, as stated: once the accumulated time is beyond the budget, the
\* submission ends in TimedOut, whatever the later queries return.
C3_BeyondBudgetOnlyTimedOut ==
    (Finished /\ tx_hash # NoHash /\ total_time > timeout) => TimedOut

\* C3, amended: the poller ends in TimedOut exactly at a receipt query that
\* reports not-found when the accumulated time is beyond the budget; that
\* query never yields Confirmed, and no other answer yields TimedOut.
C3_TimedOutExactlyAtNotFoundBeyondBudget ==
    [][pc = "receipt" =>
         /\ TimedOut' <=> (response.kind = "not_found" /\ total_time > timeout)
         /\ (response.kind = "not_found" /\ total_time > timeout) => ~Confirmed'
      ]_vars

C3_Witness ==
    TimedOut /\ total_time > timeout /\ call.poll_latency = DefaultPollLatency

\* C4: a receipt with status 1 ends send_transaction in Confirmed in the
\* poll that received it, returning the hash when need_hash is set and True
\* otherwise, whatever time has been accumulated and without a look at the
\* budget.
C4_StatusOneConfirms ==
    [][(pc = "receipt" /\ response.kind = "receipt" /\ response.has_status
          /\ response.status = 1) =>
         /\ Confirmed'
         /\ total_time' = total_time
         /\ IF call.need_hash
            THEN result'.type = "HexBytes" /\ result'.hash = tx_hash
            ELSE result'.type = "bool" /\ result'.msg = "True"
      ]_vars

\* confirmed although the accumulated time is beyond the budget
C4_Witness == Confirmed /\ result.type = "HexBytes" /\ total_time > timeout

\* C5, as stated: the caller sees TimedOut as an error of a kind other than
\* the chain-communication error.
C5_TimedOutIsNotChainCommunication ==
    TimedOut => result.type # "BlockchainException"

\* C5, amended: a not-found answer beyond the budget ends the call with a
\* raised BlockchainException, the chain-communication error, whose message
\* is the message of the TimeExhausted raised in the loop.
C5_TimedOutWrappedAsChainCommunication ==
    [][(pc = "receipt" /\ response.kind = "not_found" /\ total_time > timeout) =>
         /\ pc' = "done"
         /\ result'.kind = "raise"
         /\ result'.type = "BlockchainException"
         /\ result'.msg = TimeExhaustedMsg
      ]_vars

C5_Witness ==
    /\ Finished
    /\ result.type = "BlockchainException"
    /\ result.msg = TimeExhaustedMsg
    /\ tx_hash # NoHash

\* C6: a receipt whose status is present and not 1 ends send_transaction at
\* once with the failure as a returned SoftwareException value: nothing is
\* raised, no further query is made, and it is no BlockchainException.
C6_FailureStatusReturned ==
    [][(pc = "receipt" /\ response.kind = "receipt" /\ response.has_status
          /\ response.status # 1) =>
         /\ pc' = "done"
         /\ result'.op = "send_transaction"
         /\ result'.kind = "return"
         /\ result'.type = "SoftwareException"
      ]_vars

C6_Witness == OnChainFailed /\ result.msg = NotExecutedMsg /\ total_time > 0

\* the message of a broadcast error as C7 reads it: the 'message' field of
\* a structured payload, otherwise the error's own message
C7_Message(exc) == exc.text

\* C7: a broadcast error whose message is exactly 'already known' makes
\* send_transaction return True (no hash, whatever need_hash is) without a
\* receipt query; every other broadcast error raises BlockchainException.
C7_AlreadyKnownIsSuccess ==
    [][pc = "broadcast_except" =>
         /\ pc' = "done"
         /\ IF C7_Message(error) = "already known"
            THEN result'.kind = "return" /\ result'.type = "bool"
                 /\ result'.hash = NoHash
            ELSE result'.kind = "raise" /\ result'.type = "BlockchainException"
      ]_vars

\* a step of change_rpc made by the caller: a call between the caller's
\* other calls, and no other step
ChangeRpcStep == pc = "idle" /\ swap_calls' # swap_calls

\* C8: on a network with two or more endpoints every change_rpc connects to
\* an endpoint other than the one that was active before the call.
C8_SwapChangesActiveEndpoint ==
    [][(ChangeRpcStep /\ Cardinality(Range(network.rpc)) >= 2) => w3' # w3]_vars

\* C9: change_rpc never changes the network's endpoint list, and on a
\* network with one endpoint it keeps the active connection, logs the
\* failure and returns without raising.
C9_SingleEndpointSwapIsLoggedNoOp ==
    [][ChangeRpcStep =>
         /\ network' = network
         /\ Len(network.rpc) = 1 =>
              /\ w3' = w3
              /\ last_log' = "error"
              /\ result'.kind = "return"
      ]_vars

C9_Witness ==
    /\ result.op = "change_rpc"
    /\ Len(network.rpc) = 1
    /\ last_log = "error"

\* the keys of the two pricing shapes
PriorityFeeKeys == {"maxPriorityFeePerGas", "maxFeePerGas", "type"}
LegacyKeys == {"gasPrice"}

\* C10: a request returned by prepare_transaction has exactly one pricing
\* shape, chosen by eip1559_support alone: the three priority-fee fields
\* with type 2 and no gasPrice when the flag is set, gasPrice and none of
\* the three otherwise.
C10_OnePricingShape ==
    (result.op = "prepare_transaction" /\ result.kind = "return") =>
        IF network.eip1559_support
        THEN /\ PriorityFeeKeys \subseteq DOMAIN tx_params
             /\ tx_params.type = "0x2"
             /\ LegacyKeys \cap DOMAIN tx_params = {}
        ELSE /\ LegacyKeys \subseteq DOMAIN tx_params
             /\ PriorityFeeKeys \cap DOMAIN tx_params = {}

C10_Witness ==
    /\ result.op = "prepare_transaction"
    /\ result.kind = "return"
    /\ network.eip1559_support
    /\ "maxFeePerGas" \in DOMAIN tx_params
    /\ tx_params.value # 0

\* prepare_transaction has ended; it has returned a request; a
\* send_transaction is running or has ended
Prepared == pc = "done" /\ result.op = "prepare_transaction"
Built == Prepared /\ result.kind = "return"
Sending == pc # "idle" /\ ~InLookup /\ ~Prepared

\* the reward window the last prepare_transaction got from fee_history:
\* the blocks with a non-zero sample, and the sum of their samples
NonZeroBlocks == { i \in DOMAIN answered.reward : answered.reward[i][1] # 0 }

RECURSIVE SumOver(_)
SumOver(blocks) ==
    IF blocks = {} THEN 0
    ELSE LET i == CHOOSE j \in blocks : TRUE
         IN  answered.reward[i][1] + SumOver(blocks \ {i})

\* the priority fee of a built request on a window with non-zero samples
FeeFromSamples ==
    Built /\ network.eip1559_support /\ NonZeroBlocks # {}

\* C11, as stated: on a window with non-zero samples the priority fee is
\* the mean of the non-zero samples rounded to the nearest integer, a mean
\* halfway between two integers going up like every other; the window
\* [[5],[0],[3],[0]] gives 4.
C11_MeanRoundedHalfUp ==
    FeeFromSamples =>
        LET n == SumOver(NonZeroBlocks)
            d == Cardinality(NonZeroBlocks)
        IN  /\ tx_params.maxPriorityFeePerGas = (2 * n + d) \div (2 * d)
            /\ answered.reward = ScenarioWindow =>
                   tx_params.maxPriorityFeePerGas = 4

\* C11, amended: the priority fee is an integer nearest to the mean of the
\* non-zero samples, and a mean halfway between two integers goes to the
\* even one (2.5 gives 2, 1.5 gives 2); the window [[5],[0],[3],[0]]
\* gives 4.
C11_MeanRoundedHalfEven ==
    FeeFromSamples =>
        LET n == SumOver(NonZeroBlocks)
            d == Cardinality(NonZeroBlocks)
            fee == tx_params.maxPriorityFeePerGas
        IN  /\ 2 * (fee * d - n) <= d
            /\ 2 * (n - fee * d) <= d
            /\ 2 * (n % d) = d => fee % 2 = 0
            /\ answered.reward = ScenarioWindow => fee = 4

\* the mean 2.5 built into a request as 2
C11_Witness ==
    /\ FeeFromSamples
    /\ answered.reward = << <<2>>, <<3>> >>
    /\ tx_params.maxPriorityFeePerGas = 2

\* C12: when the reward window is empty or holds only zero samples (and
\* every lookup is answered), prepare_transaction does not fail and the
\* priority fee get_priotiry_fee returned is 0.
C12_NoSampleGivesZero ==
    (/\ Prepared
     /\ network.eip1559_support
     /\ answered.failed = "none"
     /\ NonZeroBlocks = {}) =>
        /\ result.kind = "return"
        /\ tx_params.maxPriorityFeePerGas = 0

\* a window of two zero samples built into a request with priority fee 0
C12_Witness ==
    /\ Built
    /\ network.eip1559_support
    /\ answered.reward = << <<0>>, <<0>> >>
    /\ tx_params.maxPriorityFeePerGas = 0

\* m is 1.5 times x with the fraction cut off
IsOneAndAHalfTimes(m, x) == 2 * m <= 3 * x /\ 3 * x < 2 * m + 2

\* C13: on a priority-fee network maxFeePerGas of a built request is
\* 1.5 times the sum of the base fee and the priority fee, cut to an
\* integer, and maxPriorityFeePerGas is the priority fee itself; on a legacy
\* network gasPrice is 1.5 times the network gas price, cut to an integer.
\* Base fee 100 and priority fee 4 give maxFeePerGas 156.
C13_SafetyMargin ==
    Built =>
        IF network.eip1559_support
        THEN LET priority == get_priotiry_fee(answered.reward)
             IN  /\ tx_params.maxPriorityFeePerGas = priority
                 /\ IsOneAndAHalfTimes(tx_params.maxFeePerGas,
                                       answered.gas_price + priority)
                 /\ (answered.gas_price = 100 /\ priority = 4) =>
                        tx_params.maxFeePerGas = 156
        ELSE IsOneAndAHalfTimes(tx_params.gasPrice, answered.gas_price)

\* base fee 100 and priority fee 4 built into maxFeePerGas 156
C13_Witness ==
    /\ Built
    /\ network.eip1559_support
    /\ answered.gas_price = 100
    /\ tx_params.maxPriorityFeePerGas = 4
    /\ tx_params.maxFeePerGas = 156

\* the message of an RPC error as the caller is to see it: the 'message'
\* field of a structured payload, otherwise the text of the error
NormalizedMessage(exc) ==
    IF exc.args = "dict" /\ exc.has_message THEN exc.text ELSE Str(exc)

\* the fields of a complete request
RequestKeys ==
    {"from", "nonce", "value", "chainId"}
    \cup (IF network.eip1559_support THEN PriorityFeeKeys ELSE LegacyKeys)

\* C14: when the nonce, gas-price or fee-history lookup of
\* prepare_transaction fails, the call raises BlockchainException with the
\* normalized message of the error; a call that returns had every lookup
\* answered and returns a request with every field.
C14_LookupFailureRaised ==
    Prepared =>
        /\ answered.failed # "none" =>
               /\ result.kind = "raise"
               /\ result.type = "BlockchainException"
               /\ result.msg = NormalizedMessage(answered.exc)
        /\ result.kind = "return" =>
               /\ answered.failed = "none"
               /\ DOMAIN tx_params = RequestKeys

\* a structured fee-history error raised with its message
C14_Witness ==
    /\ Prepared
    /\ answered.failed = "fee_history"
    /\ answered.exc.args = "dict"
    /\ result.type = "BlockchainException"
    /\ result.msg = "nonce too low"

\* the poller handles a receipt without a status
PendingStep ==
    pc = "receipt" /\ response.kind = "receipt" /\ ~response.has_status

\* C15: a receipt without a status keeps the poller polling: it sleeps one
\* interval and its accumulated time, its budget and its outcome stay as
\* they are, whatever has been accumulated; after the sleep it queries
\* again, and the query can always be made.  So no number of pending polls
\* ends the call, and a run of pending receipts polls without end.
C15_PendingKeepsPolling ==
    /\ [][PendingStep =>
             /\ pc' = "sleep"
             /\ delay' = call.poll_latency
             /\ total_time' = total_time
             /\ timeout' = timeout
             /\ result' = NoResult
         ]_vars
    /\ [][(pc = "sleep" /\ pc' # pc) =>
             /\ pc' = "poll"
             /\ total_time' = total_time
             /\ result' = NoResult
         ]_vars
    /\ [](pc = "poll" => ENABLED QueryReceipt({Receipt(FALSE, 0)}))

\* asleep after pending receipts only: nothing has been accumulated
C15_Witness ==
    /\ pc = "sleep"
    /\ tx_hash # NoHash
    /\ total_time = 0
    /\ delay = DefaultPollLatency

\* the stages of send_transaction, in order
StageOrder ==
    <<"estimate_gas", "sign_transaction", "send_raw_transaction",
      "get_transaction_receipt">>
StageOf(request) ==
    CHOOSE k \in DOMAIN StageOrder : StageOrder[k] = request.method

\* the running send_transaction has made a request of this stage
Reached(method) == \E i \in DOMAIN issued : issued[i].method = method

\* C16: the requests of a send_transaction are made in the order gas
\* estimation, signing, broadcast, receipt queries.  Nothing is signed
\* unless the estimation (when there is one) has set the gas limit, and a
\* call whose estimation failed ends with the estimation as its last
\* request; nothing is broadcast unsigned; no receipt is queried unless the
\* broadcast returned a hash, and every receipt query asks for that hash.
C16_StagesInOrder ==
    Sending =>
        /\ \A i, j \in DOMAIN issued :
               i < j => StageOf(issued[i]) < StageOf(issued[j])
        /\ Reached("sign_transaction") =>
               \/ call.without_gas
               \/ Reached("estimate_gas") /\ "gas" \in DOMAIN transaction
        /\ (result.kind = "raise" /\ result.context = "RpcError"
               /\ ~call.without_gas /\ error = NoError) =>
               ~Reached("sign_transaction")
        /\ Reached("send_raw_transaction") => Reached("sign_transaction")
        /\ Reached("get_transaction_receipt") =>
               /\ Reached("send_raw_transaction")
               /\ error = NoError
               /\ tx_hash # NoHash
        /\ error # NoError => ~Reached("get_transaction_receipt")
        /\ \A i \in DOMAIN issued :
               issued[i].method = "get_transaction_receipt" =>
                   issued[i].arg = tx_hash

\* a call that went through the four stages and returned the hash queried
C16_Witness ==
    /\ Confirmed
    /\ result.hash = "0xbb"
    /\ issued = <<Request("estimate_gas", ""), Request("sign_transaction", ""),
                  Request("send_raw_transaction", ""),
                  Request("get_transaction_receipt", "0xbb")>>

\* the fields of a request other than the gas limit
WithoutGasLimit(request) ==
    [k \in DOMAIN request \ {"gas"} |-> request[k]]

\* C17, as stated: gas is estimated only for a request without a gas
\* limit; a gas limit a request carries stays as it is until the call
\* ends; and a request that is signed has a gas limit, its own or the one
\* from the estimate.
C17_EstimatesOnlyWithoutGasLimit ==
    /\ [](pc = "estimate_gas" => "gas" \notin DOMAIN transaction)
    /\ [][("gas" \in DOMAIN transaction /\ pc # "done") =>
             /\ "gas" \in DOMAIN transaction'
             /\ transaction'.gas = transaction.gas
         ]_vars
    /\ [](Reached("sign_transaction") => "gas" \in DOMAIN transaction)

\* C17, amended: gas is estimated exactly when the caller has not set
\* without_gas, whatever the request carries.  The estimation either
\* replaces the request's gas limit by 1.5 times the network's estimate,
\* cut to an integer, and leaves the other fields alone, or raises
\* BlockchainException and ends the call.  From then on the request is
\* signed and broadcast as it stands: with without_gas set, as it was given.
C17_EstimatesUnlessWithoutGas ==
    /\ []((Sending /\ pc # "estimate_gas") =>
             (Reached("estimate_gas") <=> ~call.without_gas))
    /\ [][(pc = "estimate_gas" /\ pc' # pc) =>
             \/ /\ pc' = "send_raw"
                /\ \E estimate \in GasEstimates :
                      IsOneAndAHalfTimes(transaction'.gas, estimate)
                /\ WithoutGasLimit(transaction') = WithoutGasLimit(transaction)
             \/ /\ pc' = "done"
                /\ result'.kind = "raise"
                /\ result'.type = "BlockchainException"
                /\ transaction' = transaction
         ]_vars
    /\ [][pc \notin {"idle", "estimate_gas", "done"} =>
             transaction' = transaction]_vars
    /\ [][(pc = "idle" /\ pc' = "send_raw") =>
             call'.without_gas /\ transaction' \in Requests]_vars

\* signed and broadcast with no gas limit and no estimation
C17_Witness ==
    /\ Reached("send_raw_transaction")
    /\ ~Reached("estimate_gas")
    /\ "gas" \notin DOMAIN transaction
    /\ tx_hash # NoHash

\* the step in which get_transaction_count answers
NonceReadStep == pc = "get_transaction_count" /\ pc' = "gas_price"

\* C18: every prepare_transaction asks the chain for the account's
\* transaction count, as its first request and so before any fee query.
\* The nonce of the request is the count the chain has when the lookup
\* answers, read in this call, and the prices of a returned request come
\* from the answers of this call; the count read is never ahead of the
\* chain.  A build whose lookup is answered after the count has grown past
\* the nonce of the request built before carries another nonce.
C18_NonceReadAtBuild ==
    /\ [][(pc = "idle" /\ InLookup') =>
             issued' = <<Request("get_transaction_count", "")>>]_vars
    /\ [][NonceReadStep =>
             /\ tx_params'.nonce = chain_nonce
             /\ answered'.nonce = chain_nonce
             /\ ("nonce" \in DOMAIN tx_params
                   /\ tx_params.nonce < chain_nonce) =>
                    tx_params'.nonce # tx_params.nonce
         ]_vars
    /\ []((InLookup \/ Prepared) =>
             /\ issued[1].method = "get_transaction_count"
             /\ \A i \in DOMAIN issued :
                    issued[i].method \in {"gas_price", "fee_history"} => i > 1)
    /\ [](Built =>
             /\ tx_params.nonce = answered.nonce
             /\ tx_params.nonce <= chain_nonce
             /\ IF network.eip1559_support
                THEN IsOneAndAHalfTimes(tx_params.maxFeePerGas,
                         answered.gas_price + tx_params.maxPriorityFeePerGas)
                ELSE IsOneAndAHalfTimes(tx_params.gasPrice,
                                        answered.gas_price))

\* a request built after the chain's count has grown
C18_Witness ==
    /\ Built
    /\ chain_nonce = MaxNonce
    /\ tx_params.nonce = MaxNonce
    /\ answered.gas_price = 101

\* the count grew while the call was suspended in a price lookup: the
\* request is returned with a nonce behind the chain
NonceBehindChain == Built /\ tx_params.nonce < chain_nonce

\* change_rpc ran while the call was suspended: the lookup that is waiting
\* was sent to an endpoint that is no longer the active one, and the next
\* lookup of the call goes to another endpoint
LookupOnFormerEndpoint == InLookup /\ answered.asked # w3

\* C19: after construction and after any number of change_rpc calls the
\* endpoint recorded in self.rpc, the one change_rpc leaves out of its
\* candidates, is the endpoint the connection self.w3 uses.
C19_RecordedEndpointIsActive == rpc = w3

\* C20: of two pollers running side by side no step touches the locals of
\* both; a poller's accumulated time changes only when it handles a failed
\* lookup of its own, by its own interval; and what a poller does with an
\* answer, its outcome included, is a function of its own locals and that
\* answer alone.  So the failed lookups of one never count against the
\* other, and one ending leaves the other as it is.
C20_PollersIndependent ==
    [][/\ ~(MainFrame' # MainFrame /\ other' # other)
       /\ (pc = "receipt" /\ MainFrame' # MainFrame) =>
              MainFrame' = PollerHandle(MainFrame)
       /\ (other.pc = "receipt" /\ other' # other) =>
              other' = PollerHandle(other)
       /\ (pc \in {"poll", "receipt", "sleep"} /\ total_time' # total_time) =>
              /\ pc = "receipt"
              /\ response.kind \in {"not_found", "error"}
              /\ total_time' = total_time + call.poll_latency
       /\ (other.pc \in {"poll", "receipt", "sleep"}
              /\ other'.total_time # other.total_time) =>
              /\ other.pc = "receipt"
              /\ other.response.kind \in {"not_found", "error"}
              /\ other'.total_time = other.total_time + other.poll_latency
      ]_vars

\* the caller's poller has timed out and is gone while the second one,
\* with nothing accumulated, is still asleep after a pending receipt
C20_Witness ==
    /\ TimedOut
    /\ total_time > NotVisibleBudget
    /\ other.pc = "sleep"
    /\ other.total_time = 0

====
